---- MODULE Spec2Model ----
(***************************************************************************)
(* yt-trimmer: the CLI clipper (download), the trim server (POST /trim,    *)
(* GET /progress/:taskId, GET /download/:filename, processVideo) of        *)
(* src/src/robots/download.js.                                             *)
(*                                                                         *)
(* Modelling conventions                                                   *)
(*  - A string is a tuple of one-character strings; a file name is a tuple *)
(*    of name pieces (a piece never straddles a place where the code cuts  *)
(*    or compares names), so startsWith / includes / endsWith are computed *)
(*    on the pieces.                                                       *)
(*  - A JS number is [nan |-> BOOLEAN, v |-> Int]; NaN compares false.     *)
(*  - A percentage is kept in tenths, a scaled progress in thousandths, so *)
(*    that 5 + p * 0.6 and Math.round are integer arithmetic.              *)
(*  - Node runs one callback at a time and drains the microtask queue      *)
(*    after it: an event handler and the continuation of the await it      *)
(*    settles are one action.                                              *)
(*  - Task ids are fresh: Date.now() / Math.random() collisions are not    *)
(*    modelled, task slot t carries the id pieces "task_", t, "_", "r".    *)
(***************************************************************************)
EXTENDS Integers, Sequences, FiniteSets, TLC

\* ---------------------------------------------------------------- bounds
NumTasks == 2
NumConns == 2
MaxYtChunks == 2
MaxFfChunks == 1
\* how many of its last entries the model keeps of a log
LogTail == 3
\* the length of the excerpt of yt-dlp's stderr text in an error message, in
\* lines of the model (200 characters in the code)
ExcerptLen == 1
\* how many deletion timers of GET /download one client may have pending
MaxDlTimers == 2
\* the largest percentage token yt-dlp writes, in tenths of a percent (the
\* pattern of the handlers accepts any digits, so 100.0 is not the limit)
MaxRawPercent == 1200

\* the client addresses, the last instant of the clock, and how many requests
\* of one address the rate limiter sees
NumIps == 2
MaxNow == 4
MaxRateRequests == 4
\* config.rateLimit.max and config.rateLimit.windowMs, in units of the clock
RateLimitMax == 2
RateLimitWindowMs == 2
\* browser: how many /trim requests may be in flight, how many timers pending
MaxInFlight == 2
MaxClientTimers == 2

Tasks == 1..NumTasks
Ips == 1..NumIps
Conns == 1..NumConns

\* ------------------------------------------------------------ JS numbers
NaN == [nan |-> TRUE, v |-> 0]

Num(n) == [nan |-> FALSE, v |-> n]

\* a + b, a - b, a * b of JS numbers: NaN is contagious
NumAdd(a, b) == IF a.nan \/ b.nan THEN NaN ELSE Num(a.v + b.v)

NumSub(a, b) == IF a.nan \/ b.nan THEN NaN ELSE Num(a.v - b.v)

NumMul(a, b) == IF a.nan \/ b.nan THEN NaN ELSE Num(a.v * b.v)

\* a <= 0 of a JS number: every comparison with NaN is false
NumLeqZero(a) == ~a.nan /\ a.v <= 0

\* ---------------------------------------------------------------- strings
Digits == {"0", "1", "2", "3", "4", "5", "6", "7", "8", "9"}

DigitVal(c) ==
  CASE c = "0" -> 0 [] c = "1" -> 1 [] c = "2" -> 2 [] c = "3" -> 3
    [] c = "4" -> 4 [] c = "5" -> 5 [] c = "6" -> 6 [] c = "7" -> 7
    [] c = "8" -> 8 [] c = "9" -> 9

\* str.split(sep) for a one-character separator: the pieces between the
\* separators, an empty string giving one empty piece
RECURSIVE SplitAcc(_, _, _, _)
SplitAcc(s, sep, cur, acc) ==
  IF s = <<>> THEN Append(acc, cur)
  ELSE IF Head(s) = sep THEN SplitAcc(Tail(s), sep, <<>>, Append(acc, cur))
  ELSE SplitAcc(Tail(s), sep, Append(cur, Head(s)), acc)

Split(s, sep) == SplitAcc(s, sep, <<>>, <<>>)

\* the value of the longest run of decimal digits s starts with
RECURSIVE DigitRun(_, _)
DigitRun(s, acc) ==
  IF s = <<>> \/ Head(s) \notin Digits THEN acc
  ELSE DigitRun(Tail(s), 10 * acc + DigitVal(Head(s)))

\* parseInt(s, 10): leading blanks skipped, an optional sign, then the
\* longest run of digits; NaN when there is no digit there
RECURSIVE ParseInt(_)
ParseInt(s) ==
  IF s = <<>> THEN NaN
  ELSE IF Head(s) = " " THEN ParseInt(Tail(s))
  ELSE IF Head(s) = "-"
    THEN IF Len(s) > 1 /\ s[2] \in Digits THEN Num(0 - DigitRun(Tail(s), 0)) ELSE NaN
  ELSE IF Head(s) = "+"
    THEN IF Len(s) > 1 /\ s[2] \in Digits THEN Num(DigitRun(Tail(s), 0)) ELSE NaN
  ELSE IF Head(s) \in Digits THEN Num(DigitRun(s, 0))
  ELSE NaN

\* the while loop of timeToSeconds: parts.pop() takes the last piece
RECURSIVE TimeLoop(_, _, _)
TimeLoop(parts, seconds, multiplier) ==
  IF Len(parts) = 0 THEN seconds
  ELSE TimeLoop(SubSeq(parts, 1, Len(parts) - 1),
                NumAdd(seconds, NumMul(Num(multiplier), ParseInt(parts[Len(parts)]))),
                multiplier * 60)

\* a conversion that takes the first piece for the seconds
timeToSecondsLeftToRight(timeString) ==
  IF timeString = <<>> THEN Num(0)
  ELSE LET parts == Split(timeString, ":")
       IN TimeLoop([i \in 1..Len(parts) |-> parts[Len(parts) + 1 - i]], Num(0), 1)

\* timeToSeconds(timeString): "" (falsy) gives 0
timeToSeconds(timeString) ==
  IF timeString = <<>> THEN Num(0)
  ELSE TimeLoop(Split(timeString, ":"), Num(0), 1)

\* ------------------------------------------------------------ file names
\* taskId = `task_${Date.now()}_${Math.random().toString(36).substr(2, 9)}`
TaskId(t) == <<"task_", ToString(t), "_", "r">>

\* format === 'mp3' ? 'mp3' : 'mp4'
Extension(format) == IF format = "mp3" THEN ".mp3" ELSE ".mp4"

\* tempFile = temp_<taskId>.<ext>, in the working directory
TempFile(t, format) == <<"temp_">> \o TaskId(t) \o <<Extension(format)>>

\* finalFile = <filename>.<ext>, in the same directory; outputFilename
FinalFile(filename, format) == filename \o <<Extension(format)>>

ExtPieces == {".mp4", ".mp3", ".webm", ".mkv", ".part", ".f399"}

Front(s) == SubSeq(s, 1, Len(s) - 1)

LastOf(s) == s[Len(s)]

\* path.extname(p): from the last "." of the name to its end
ExtName(name) == IF name # <<>> /\ LastOf(name) \in ExtPieces THEN LastOf(name) ELSE ""

\* path.basename(p, ext): the name, without ext when it ends with it
BaseName(name, ext) == IF name # <<>> /\ LastOf(name) = ext THEN Front(name) ELSE name

\* file.startsWith(prefix)
StartsWith(name, prefix) ==
  Len(prefix) <= Len(name) /\ SubSeq(name, 1, Len(prefix)) = prefix

\* file.endsWith(ext)
EndsWith(name, ext) == name # <<>> /\ LastOf(name) = ext

\* file.includes(part)
Includes(name, part) ==
  \E i \in 1..(Len(name) - Len(part) + 1) : SubSeq(name, i, i + Len(part) - 1) = part

\* what yt-dlp may leave in the directory when given -o tempFile: nothing,
\* the intended path, a decorated name with a partial download, a partial
\* download alone
YtArtifacts(t, format) ==
  LET decorated == <<"temp_">> \o TaskId(t) \o <<".f399", ".webm">>
      partial == TempFile(t, format) \o <<".part">>
  IN { {}, {TempFile(t, format)}, {decorated, partial}, {partial} }

\* -------------------------------------------------------------- requests
TimeA == <<"0", "0", ":", "0", "3", ":", "0", "1">>
TimeB == <<"0", "0", ":", "0", "4", ":", "0", "5">>
TimeShort == <<"0", "4", ":", "0", "5">>
TimeFrac == <<"0", "0", ":", "0", "3", ":", "0", "1", ".", "5">>
TimeBad == <<"a", "b", "c">>
TimeHalfBad == <<"0", "0", ":", "x", "x">>
TimeEmptySeg == <<"0", "1", ":">>
TimeNeg == <<"-", "5">>
TimePlain == <<"9", "0">>
TimeEmpty == <<>>

\* the time strings a caller may hand in
TimeInputs ==
  {TimeA, TimeB, TimeShort, TimeFrac, TimeBad, TimeHalfBad, TimeEmptySeg,
   TimeNeg, TimePlain, TimeEmpty}

\* two-digit segments, and the well-formed time strings made of them:
\* HH:MM:SS and MM:SS, with or without a fraction of a second
Segments ==
  {<<"0", "0">>, <<"0", "1">>, <<"0", "3">>, <<"0", "4">>, <<"0", "5">>, <<"5", "9">>}

WellFormedTimes ==
  LET whole == {h \o <<":">> \o m \o <<":">> \o sec : h \in Segments, m \in Segments,
                                                      sec \in Segments}
                 \cup {m \o <<":">> \o sec : m \in Segments, sec \in Segments}
  IN whole \cup {w \o <<".", "5">> : w \in {TimeA, TimeShort}}

\* config.cleanup.autoDeleteAfterDownload
AutoDeleteAfterDownload == TRUE

Formats == {"mp4", "mp3"}

\* ---------------------------------------------------------------- events
Terminal == {"complete", "error"}

\* a message: its fixed text and the number or code it embeds
Msg(text, n) == [text |-> text, n |-> n]

Event(status, progress, message) ==
  [status |-> status, progress |-> progress, message |-> message]

CompleteEvent(filename) ==
  [status |-> "complete", progress |-> 100,
   message |-> Msg("Selesai! Mengunduh file...", 0), filename |-> filename]

\* the first message of a progress stream; it carries no message field
Connected == [status |-> "connected", progress |-> 0]

\* -------------------------------------------------- subprocess output text
Line(pct) == [pct |-> pct]

Noise == Line(-1)

\* the chunks yt-dlp may write: lines with or without a percentage token
\* (in tenths of a percent)
\* the chunks of its stdout, of its stderr
YtStdoutChunks == {<<Line(0)>>, <<Line(500)>>, <<Line(1000), Line(500)>>}

YtStderrChunks == {<<Noise>>, <<Line(500)>>}

\* output.match(/(\d+\.?\d*)%/): the first percentage token of the chunk,
\* -1 when there is none (match is null)
RECURSIVE MatchPercent(_)
MatchPercent(output) ==
  IF output = <<>> THEN -1
  ELSE IF Head(output).pct >= 0 THEN Head(output).pct
  ELSE MatchPercent(Tail(output))

\* every percentage token of one line, in tenths of a percent
RawPercents == 0..MaxRawPercent

\* the scaling without its upper limit
ScaledUncapped(downloadPercent) == 5000 + downloadPercent * 60

\* Math.min(5 + (downloadPercent * 0.6), 65), in thousandths
ScaledProgress(downloadPercent) ==
  LET x == 5000 + downloadPercent * 60 IN IF x < 65000 THEN x ELSE 65000

\* Math.round of a value in thousandths
RoundMilli(x) == (x + 500) \div 1000

\* Math.round of a percentage in tenths
RoundTenth(p) == (p + 5) \div 10

\* ----------------------------------------------------------------- state
VARIABLES
  options,          \* processVideo's options of each accepted task (by task slot)
  trimResponse,     \* the last response of POST /trim
  progressStreams,  \* Map taskId -> res: the connection events are written to
  taskProgress,     \* Map taskId -> the last event published
  published,        \* logger.task: the events sendProgress was called with, per task (tail)
  connState,        \* a progress connection: "idle", "open", "closed"
  connTask,         \* the taskId of its request
  received,         \* what was written to it (tail)
  fetchPromise,     \* the promise of the yt-dlp stage: "none", "pending", "resolved", "rejected"
  ytProc,           \* the yt-dlp child: "none", "running", "errored", "closed"
  ytCode,           \* its exit code, once closed
  ytChunks,         \* how many chunks it has written
  lastProgress,     \* lastProgress of the stage, in thousandths
  errorOutput,      \* errorOutput of the stage: the stderr text so far
  actualTempFile,   \* what findDownloadedFile returned
  tempFound,        \* fs.existsSync(actualTempFile) was true
  cutPromise,       \* the promise of the ffmpeg stage
  ffProc,           \* the ffmpeg child
  ffCode,           \* its exit code, once closed
  ffChunks,         \* how many stderr chunks it has written
  files,            \* the working directory: file name -> the task that wrote it
  dlTimer,          \* the pending setTimeouts of GET /download, per requesting client
  dlStatus,         \* the status of the last GET /download response, per client
  cliStart,         \* download(content): the start time it ends up with
  cliEnd,           \* the end time
  cliDuration,      \* duration
  cliResult,        \* "none", "invalid", "success", "error"
  cliSpawned,       \* download launched a subprocess
  rateLimitStore,   \* Map ip -> { count, startTime } of the rate limiter
  now,              \* Date.now(), in units of the model
  rateLog,          \* per address, the requests the limiter saw: time, admitted
  submitDisabled,   \* browser: submitBtn.disabled
  eventSource,      \* browser: the EventSource is open (FALSE: null or closed)
  trimPending,      \* browser: fetch('/trim') calls not yet settled
  shownStatus,      \* browser: the status updateProgress showed last
  downloadTimers,   \* browser: pending setTimeout(triggerDownload, 500)
  resetTimers       \* browser: pending setTimeout(resetButton, hideProgress, 2000)

busVars == <<progressStreams, taskProgress, published, received>>

connVars == <<connState, connTask>>

fetchVars == <<fetchPromise, ytProc, ytCode, ytChunks, lastProgress, errorOutput,
               actualTempFile, tempFound>>

cutVars == <<cutPromise, ffProc, ffCode, ffChunks>>

dlVars == <<dlTimer, dlStatus>>

cliVars == <<cliStart, cliEnd, cliDuration, cliResult, cliSpawned>>

rateVars == <<rateLimitStore, now, rateLog>>

clientVars == <<submitDisabled, eventSource, trimPending, shownStatus, downloadTimers,
                resetTimers>>

vars == <<options, trimResponse, busVars, connVars, fetchVars, cutVars, files,
          dlVars, cliVars, rateVars, clientVars>>

\* ------------------------------------------------------------------- maps
\* map.set(k, v)
MapSet(m, k, v) == [x \in DOMAIN m \cup {k} |-> IF x = k THEN v ELSE m[x]]

\* map.delete(k)
MapDelete(m, k) == [x \in DOMAIN m \ {k} |-> m[x]]

EmptyMap == [x \in {} |-> 0]

\* the last LogTail entries of a log
Keep(log) ==
  IF Len(log) > LogTail THEN SubSeq(log, Len(log) - LogTail + 1, Len(log)) ELSE log

\* the last k entries of a sequence
LastK(s, k) == SubSeq(s, Len(s) - k + 1, Len(s))

\* ----------------------------------------------------------- Progress Bus
\* the bus as one value, so that sendProgress is a function of it
Bus == [streams |-> progressStreams, progress |-> taskProgress,
        published |-> published, received |-> received]

\* a publish that stores the event as the snapshot of every task
sendProgressToAll(bus, taskId, data) ==
  [streams |-> bus.streams,
   progress |-> [x \in DOMAIN bus.progress \cup {taskId} |-> data],
   published |-> [bus.published EXCEPT ![taskId] = Keep(Append(@, data))],
   received |-> IF taskId \in DOMAIN bus.streams
                  THEN [bus.received EXCEPT ![bus.streams[taskId]] = Keep(Append(@, data))]
                  ELSE bus.received]

\* sendProgress(taskId, data): write to the task's stream when there is one,
\* store the event as the task's snapshot, log it
sendProgress(bus, taskId, data) ==
  [streams |-> bus.streams,
   progress |-> MapSet(bus.progress, taskId, data),
   published |-> [bus.published EXCEPT ![taskId] = Keep(Append(@, data))],
   received |-> IF taskId \in DOMAIN bus.streams
                  THEN [bus.received EXCEPT ![bus.streams[taskId]] = Keep(Append(@, data))]
                  ELSE bus.received]

\* the bus after an action
BusBecomes(bus) ==
  /\ progressStreams' = bus.streams
  /\ taskProgress' = bus.progress
  /\ published' = bus.published
  /\ received' = bus.received

\* ------------------------------------------------------------ the directory
\* the directory without the names in gone
Without(fs, gone) == [n \in DOMAIN fs \ gone |-> fs[n]]

\* the directory after a process wrote (created or overwrote) the names
WrittenBy(fs, names, t) == [n \in DOMAIN fs \cup names |-> IF n \in names THEN t ELSE fs[n]]

\* fs.existsSync(path)
Exists(fs, name) == name \in DOMAIN fs

\* findDownloadedFile(basePath): the names it may return. files.filter keeps
\* the directory's order, which the file system decides: any kept name with a
\* media extension may come first
FindDownloadedFile(fs, basePath) ==
  LET basename == BaseName(basePath, ExtName(basePath))
      matches == {f \in DOMAIN fs :
                    StartsWith(f, basename) \/ Includes(f, BaseName(basePath, ".mp4"))}
      media == {f \in matches :
                  EndsWith(f, ".mp4") \/ EndsWith(f, ".mp3")
                    \/ EndsWith(f, ".webm") \/ EndsWith(f, ".mkv")}
  IN IF Exists(fs, basePath) THEN {basePath}
     ELSE IF media # {} THEN media
     ELSE {basePath}

\* the files.forEach test of the success path cleanup
JanitorMatches(file, t, tempFile) ==
  \/ StartsWith(file, BaseName(tempFile, ExtName(tempFile)))
  \/ StartsWith(file, <<"temp_", TaskId(t)[2]>>)

\* the names the success path cleanup calls unlinkSync for
JanitorTargets(fs, t, tempFile, finalFile) ==
  {f \in DOMAIN fs : JanitorMatches(f, t, tempFile) /\ f # finalFile}

\* a cleanup that gives up at the first deletion that fails
JanitorStopsAtFailure(fs, t, tempFile, finalFile, readdirOk, undeletable) ==
  IF ~readdirOk \/ undeletable # {} THEN fs
  ELSE Without(fs, JanitorTargets(fs, t, tempFile, finalFile))

\* the success path cleanup: readdirSync may throw (nothing is deleted then),
\* unlinkSync throws for the names in undeletable
Janitor(fs, t, tempFile, finalFile, readdirOk, undeletable) ==
  IF ~readdirOk THEN fs
  ELSE Without(fs, JanitorTargets(fs, t, tempFile, finalFile) \ undeletable)

\* a cleanup test that takes every temp file for the task's own
ErrorCleanupMatchesAnyTemp(file, t, tempFile) == StartsWith(file, <<"temp_">>)

\* the files.forEach test of the cleanup on error
ErrorCleanupMatches(file, t, tempFile) ==
  Includes(file, TaskId(t)) \/ StartsWith(file, BaseName(tempFile, ".mp4"))

\* the names the cleanup on error calls unlinkSync for
ErrorCleanupTargets(fs, t, tempFile) ==
  {f \in DOMAIN fs : ErrorCleanupMatches(f, t, tempFile)}

\* the cleanup of the catch block
ErrorCleanup(fs, t, tempFile, readdirOk, undeletable) ==
  IF ~readdirOk THEN fs
  ELSE Without(fs, ErrorCleanupTargets(fs, t, tempFile) \ undeletable)

\* the files the periodic cleanup looks at: temp_*.mp4 and temp_*.mp3
SweepVisits(fs) ==
  {f \in DOMAIN fs :
     StartsWith(f, <<"temp_">>) /\ (EndsWith(f, ".mp4") \/ EndsWith(f, ".mp3"))}

\* the directory after one run of the periodic cleanup. One try block holds
\* the listing and the whole loop: when readdirSync throws nothing is
\* deleted, and when statSync or unlinkSync throws for the file in failing,
\* only files visited before it (the directory's order decides which) have
\* been looked at
SweepDir(fs, old, readdirOk, failing, before) ==
  IF ~readdirOk THEN fs
  ELSE IF failing = {} THEN Without(fs, SweepVisits(fs) \cap old)
  ELSE Without(fs, (before \cap old) \ failing)

\* the names unlinkSync may throw for in one cleanup: none, or one of those
\* it is called for
Undeletables(targets) == {{}} \cup {{f} : f \in targets}

\* --------------------------------------------------------------- validation
AllDigits(seg) == \A i \in DOMAIN seg : seg[i] \in Digits

\* a seconds segment: two digits, then maybe "." and digits
IsSecondsSegment(seg) ==
  /\ Len(seg) >= 2
  /\ AllDigits(SubSeq(seg, 1, 2))
  /\ Len(seg) > 2 => (seg[3] = "." /\ Len(seg) > 3 /\ AllDigits(SubSeq(seg, 4, Len(seg))))

\* the time-string pattern: HH:MM:SS[.ms] or MM:SS
IsTimeString(s) ==
  LET parts == Split(s, ":") IN
  /\ Len(parts) \in {2, 3}
  /\ \A i \in 1..(Len(parts) - 1) : Len(parts[i]) \in {1, 2} /\ AllDigits(parts[i])
  /\ IsSecondsSegment(parts[Len(parts)])

\* validators.timeToSeconds
ValidatorsTimeToSeconds(timeString) == timeToSeconds(timeString)

\* a /trim request body; urlOk: the url has the video host's shape
Request(urlOk, start, end, format) ==
  [urlOk |-> urlOk, start |-> start, end |-> end, filename |-> <<"clip">>, format |-> format]

\* the request bodies: a good range in each format, and bodies with a bad
\* url, a reversed range, an empty range and a start that is no time
Requests ==
  {Request(TRUE, TimeA, TimeB, format) : format \in Formats}
    \cup {Request(FALSE, TimeA, TimeB, "mp4"), Request(TRUE, TimeB, TimeA, "mp4"),
          Request(TRUE, TimeA, TimeA, "mp3"), Request(TRUE, TimeBad, TimeB, "mp4")}

\* a request of a client that has the id of the first task from its response
\* and puts that task's temp base name into the name of its own output
RequestNamedAfterFirst ==
  [Request(TRUE, TimeA, TimeB, "mp4") EXCEPT !.filename = <<"x_", "temp_">> \o TaskId(1)]

\* validators.validateTrimRequest(body).isValid
ValidateTrimRequest(body) ==
  /\ body.urlOk
  /\ IsTimeString(body.start)
  /\ IsTimeString(body.end)
  /\ LET d == NumSub(ValidatorsTimeToSeconds(body.end), ValidatorsTimeToSeconds(body.start))
     IN ~d.nan /\ d.v > 0

\* -------------------------------------------------------------------- Init
InitServer ==
  /\ options = EmptyMap
  /\ trimResponse = [status |-> 0, taskId |-> 0]
  /\ progressStreams = EmptyMap
  /\ taskProgress = EmptyMap
  /\ published = [t \in Tasks |-> <<>>]
  /\ connState = [c \in Conns |-> "idle"]
  /\ connTask = [c \in Conns |-> 0]
  /\ received = [c \in Conns |-> <<>>]
  /\ fetchPromise = [t \in Tasks |-> "none"]
  /\ ytProc = [t \in Tasks |-> "none"]
  /\ ytCode = [t \in Tasks |-> 0]
  /\ ytChunks = [t \in Tasks |-> 0]
  /\ lastProgress = [t \in Tasks |-> 0]
  /\ errorOutput = [t \in Tasks |-> <<>>]
  /\ actualTempFile = [t \in Tasks |-> <<>>]
  /\ tempFound = [t \in Tasks |-> FALSE]
  /\ cutPromise = [t \in Tasks |-> "none"]
  /\ ffProc = [t \in Tasks |-> "none"]
  /\ ffCode = [t \in Tasks |-> 0]
  /\ ffChunks = [t \in Tasks |-> 0]
  /\ files = EmptyMap
  /\ dlTimer = [t \in Tasks |-> 0]
  /\ dlStatus = [t \in Tasks |-> 0]
  /\ rateLimitStore = EmptyMap
  /\ now = 0
  /\ rateLog = [ip \in Ips |-> <<>>]
  /\ submitDisabled = FALSE
  /\ eventSource = FALSE
  /\ trimPending = 0
  /\ shownStatus = "none"
  /\ downloadTimers = 0
  /\ resetTimers = 0

\* the CLI has not been started
InitCliIdle ==
  /\ cliStart = TimeA
  /\ cliEnd = TimeB
  /\ cliDuration = Num(0)
  /\ cliResult = "none"
  /\ cliSpawned = FALSE

\* the CLI is about to run, with any of the time strings
InitCli ==
  /\ cliStart \in TimeInputs
  /\ cliEnd \in TimeInputs
  /\ cliDuration = Num(0)
  /\ cliResult = "none"
  /\ cliSpawned = FALSE

Init == InitServer /\ InitCliIdle

\* ------------------------------------------------------------ processVideo
\* a promise on which every resolve and reject takes effect
SettlesAgain(promise) == TRUE

\* a promise on which no resolve or reject takes effect
SettlesNever(promise) == FALSE

\* a 'close' handler that resolves whatever the exit code
ResolvesOnAnyCode(code) == "resolved"

\* a promise settles once: resolve and reject take effect on a pending
\* promise only
Settles(promise) == promise = "pending"

\* the promise after resolve or reject
Settle(promise, outcome) == IF Settles(promise) THEN outcome ELSE promise

\* the event of the catch block
ErrorEvent(message) == Event("error", 0, message)

\* the catch block: cleanup (readdirSync may throw, or unlinkSync for one of
\* the names), then the error event
Catch(t, bus, fs, tempFile, message) ==
  /\ \/ files' = ErrorCleanup(fs, t, tempFile, FALSE, {})
     \/ \E undeletable \in Undeletables(ErrorCleanupTargets(fs, t, tempFile)) :
          files' = ErrorCleanup(fs, t, tempFile, TRUE, undeletable)
  /\ BusBecomes(sendProgress(bus, t, ErrorEvent(message)))

\* a progress check that passes any change of the percentage
RaisesProgressOnAnyChange(scaledProgress, last) == scaledProgress # last

\* if (scaledProgress > lastProgress)
RaisesProgress(scaledProgress, last) == scaledProgress > last

\* the 'data' handlers of yt-dlp's stdout and stderr, after the chunk is read:
\* a percentage that raises the scaled progress is published
OnDownloadPercent(t, output) ==
  LET downloadPercent == MatchPercent(output)
      scaledProgress == ScaledProgress(downloadPercent)
  IN IF downloadPercent >= 0 /\ RaisesProgress(scaledProgress, lastProgress[t])
       THEN /\ lastProgress' = [lastProgress EXCEPT ![t] = scaledProgress]
            /\ BusBecomes(sendProgress(Bus, t,
                 Event("downloading", RoundMilli(scaledProgress),
                       Msg("Mengunduh video...", RoundTenth(downloadPercent)))))
       ELSE UNCHANGED <<lastProgress, busVars>>

\* s.substring(0, k)
Substring(s, k) == SubSeq(s, 1, IF Len(s) < k THEN Len(s) ELSE k)

\* the message of the error the 'close' handler of yt-dlp rejects with: the
\* exit code and the start of the captured stderr text
DownloadFailed(code, errorText) ==
  [text |-> "Download gagal (code)", n |-> code, excerpt |-> Substring(errorText, ExcerptLen)]

\* the 'close' handler of yt-dlp: resolve on code 0, reject otherwise
YtCloseOutcome(code) == IF code = 0 THEN "resolved" ELSE "rejected"

\* a 'close' handler of ffmpeg that resolves whatever the exit code
CutResolvesOnAnyCode(code) == "resolved"

\* the 'close' handler of ffmpeg
FfCloseOutcome(code) == IF code = 0 THEN "resolved" ELSE "rejected"

\* if (!fs.existsSync(actualTempFile)) throw
TempMissing(fs, actual) == ~Exists(fs, actual)

\* processVideo from the resolved download to the launch of ffmpeg:
\* findDownloadedFile (its readdirSync may throw), the existence check, the
\* spawn of ffmpeg (which may throw)
AfterFetch(t, fs) ==
  LET tempFile == TempFile(t, options[t].format)
      bus1 == sendProgress(Bus, t,
                Event("downloading", 65, Msg("Download selesai, mempersiapkan trimming...", 0)))
      bus2 == sendProgress(bus1, t,
                Event("trimming", 70, Msg("Memotong video sesuai durasi yang dipilih...", 0)))
  IN \/ /\ Catch(t, bus1, fs, tempFile, Msg("readdir failed", 0))
        /\ UNCHANGED <<actualTempFile, tempFound, cutVars>>
     \/ \E actual \in FindDownloadedFile(fs, tempFile) :
          /\ actualTempFile' = [actualTempFile EXCEPT ![t] = actual]
          /\ tempFound' = [tempFound EXCEPT ![t] = ~TempMissing(fs, actual)]
          /\ IF TempMissing(fs, actual)
               THEN /\ Catch(t, bus1, fs, tempFile, Msg("File download tidak ditemukan", 0))
                    /\ UNCHANGED cutVars
               ELSE \/ /\ ffProc' = [ffProc EXCEPT ![t] = "running"]
                       /\ cutPromise' = [cutPromise EXCEPT ![t] = "pending"]
                       /\ files' = fs
                       /\ BusBecomes(bus2)
                       /\ UNCHANGED <<ffCode, ffChunks>>
                    \/ /\ cutPromise' = [cutPromise EXCEPT ![t] = "rejected"]
                       /\ Catch(t, bus2, fs, tempFile, Msg("spawn failed", 0))
                       /\ UNCHANGED <<ffProc, ffCode, ffChunks>>

\* a cleanup whose failures leave its try blocks
JanitorThrowsOnFailure(readdirOk, undeletable) == ~readdirOk \/ undeletable # {}

\* the success path cleanup throws out of its try/catch: never, both the
\* listing and each unlinkSync are caught and logged
JanitorThrows(readdirOk, undeletable) == FALSE

\* a pipeline that does not look for its final file
FinalNeverMissing(fs, finalFile) == FALSE

\* !fs.existsSync(finalFile)
FinalMissing(fs, finalFile) == ~Exists(fs, finalFile)

\* processVideo from the resolved trim to its end: the cleaning event, the
\* cleanup, the check of the final file, the complete event
AfterCut(t, fs) ==
  LET tempFile == TempFile(t, options[t].format)
      finalFile == FinalFile(options[t].filename, options[t].format)
      bus1 == sendProgress(Bus, t,
                Event("cleaning", 96, Msg("Membersihkan file temporary...", 0)))
      done(fs1, readdirOk, undeletable) ==
        IF JanitorThrows(readdirOk, undeletable)
          THEN Catch(t, bus1, fs1, tempFile, Msg("cleanup failed", 0))
        ELSE IF FinalMissing(fs1, finalFile)
          THEN Catch(t, bus1, fs1, tempFile, Msg("File hasil trim tidak ditemukan", 0))
          ELSE /\ files' = fs1
               /\ BusBecomes(sendProgress(bus1, t, CompleteEvent(finalFile)))
  IN \/ done(Janitor(fs, t, tempFile, finalFile, FALSE, {}), FALSE, {})
     \/ \E undeletable \in Undeletables(JanitorTargets(fs, t, tempFile, finalFile)) :
          done(Janitor(fs, t, tempFile, finalFile, TRUE, undeletable), TRUE, undeletable)

\* a handler that names the task and publishes its first event before it
\* looks at the validation
RejectTrimAfterFirstEvent ==
  LET t == Cardinality(DOMAIN options) + 1
  IN /\ t \in Tasks
     /\ trimResponse' = [status |-> 400, taskId |-> t]
     /\ BusBecomes(sendProgress(Bus, t,
          Event("downloading", 5, Msg("Memulai pengunduhan video...", 0))))
     /\ UNCHANGED <<options, connVars, fetchVars, cutVars, files, dlVars, cliVars, rateVars, clientVars>>

\* return res.status(400).json({ success: false, message })
RejectTrim ==
  /\ trimResponse' = [status |-> 400, taskId |-> 0]
  /\ UNCHANGED <<options, busVars, connVars, fetchVars, cutVars, files,
                 dlVars, cliVars, rateVars, clientVars>>

\* ----------------------------------------------------------------- actions
\* POST /trim: validate, answer with the task id, start processVideo, which
\* runs to its first await: the first event, then the spawn of yt-dlp (which
\* may throw)
Trim(body) ==
  LET t == Cardinality(DOMAIN options) + 1
      tempFile == TempFile(t, body.format)
      duration == NumSub(ValidatorsTimeToSeconds(body.end), ValidatorsTimeToSeconds(body.start))
      bus1 == sendProgress(Bus, t,
                Event("downloading", 5, Msg("Memulai pengunduhan video...", 0)))
  IN IF ~ValidateTrimRequest(body)
       THEN RejectTrim
       ELSE /\ t \in Tasks
            /\ trimResponse' = [status |-> 200, taskId |-> t]
            /\ options' = MapSet(options, t,
                 [format |-> body.format, filename |-> body.filename, duration |-> duration])
            /\ \/ /\ ytProc' = [ytProc EXCEPT ![t] = "running"]
                  /\ fetchPromise' = [fetchPromise EXCEPT ![t] = "pending"]
                  /\ lastProgress' = [lastProgress EXCEPT ![t] = 5000]
                  /\ BusBecomes(bus1)
                  /\ UNCHANGED files
               \/ /\ fetchPromise' = [fetchPromise EXCEPT ![t] = "rejected"]
                  /\ Catch(t, bus1, files, tempFile, Msg("spawn failed", 0))
                  /\ UNCHANGED <<ytProc, lastProgress>>
            /\ UNCHANGED <<connVars, ytCode, ytChunks, errorOutput, actualTempFile,
                           tempFound, cutVars, dlVars, cliVars, rateVars, clientVars>>

\* ytProcess.stdout.on('data')
YtStdout(t, output) ==
  /\ ytProc[t] = "running"
  /\ ytChunks[t] < MaxYtChunks
  /\ ytChunks' = [ytChunks EXCEPT ![t] = @ + 1]
  /\ OnDownloadPercent(t, output)
  /\ UNCHANGED <<options, trimResponse, connVars, fetchPromise, ytProc, ytCode,
                 errorOutput, actualTempFile, tempFound, cutVars, files, dlVars, cliVars, rateVars, clientVars>>

\* ytProcess.stderr.on('data')
YtStderr(t, output) ==
  /\ ytProc[t] = "running"
  /\ ytChunks[t] < MaxYtChunks
  /\ ytChunks' = [ytChunks EXCEPT ![t] = @ + 1]
  /\ errorOutput' = [errorOutput EXCEPT ![t] = @ \o output]
  /\ OnDownloadPercent(t, output)
  /\ UNCHANGED <<options, trimResponse, connVars, fetchPromise, ytProc, ytCode,
                 actualTempFile, tempFound, cutVars, files, dlVars, cliVars, rateVars, clientVars>>

\* ytProcess.on('error'): the shell could not be spawned; 'close' follows
YtError(t) ==
  /\ ytProc[t] = "running"
  /\ ytChunks[t] = 0
  /\ ytProc' = [ytProc EXCEPT ![t] = "errored"]
  /\ fetchPromise' = [fetchPromise EXCEPT ![t] = Settle(@, "rejected")]
  /\ IF Settles(fetchPromise[t])
       THEN Catch(t, Bus, files, TempFile(t, options[t].format), Msg("spawn failed", 0))
       ELSE UNCHANGED <<busVars, files>>
  /\ UNCHANGED <<options, trimResponse, connVars, ytCode, ytChunks, lastProgress,
                 errorOutput, actualTempFile, tempFound, cutVars, dlVars, cliVars, rateVars, clientVars>>

\* ytProcess.on('close'), with what yt-dlp left in the directory; when the
\* promise settles here, processVideo goes on within the same turn. No
\* handler of the child runs after 'close': its chunk count and the
\* closure's lastProgress and errorOutput are dropped
YtClose(t, code, produced) ==
  /\ ytProc[t] \in {"running", "errored"}
  /\ ytProc[t] = "running" => code \in {0, 1}
  /\ ytProc[t] = "errored" => code = -2 /\ produced = {}
  /\ ytProc' = [ytProc EXCEPT ![t] = "closed"]
  /\ ytCode' = [ytCode EXCEPT ![t] = code]
  /\ ytChunks' = [ytChunks EXCEPT ![t] = 0]
  /\ lastProgress' = [lastProgress EXCEPT ![t] = 0]
  /\ errorOutput' = [errorOutput EXCEPT ![t] = <<>>]
  /\ fetchPromise' = [fetchPromise EXCEPT ![t] = Settle(@, YtCloseOutcome(code))]
  /\ LET fs == WrittenBy(files, produced, t)
     IN IF ~Settles(fetchPromise[t])
          THEN /\ files' = fs
               /\ UNCHANGED <<busVars, actualTempFile, tempFound, cutVars>>
          ELSE IF YtCloseOutcome(code) = "resolved"
          THEN AfterFetch(t, fs)
          ELSE /\ Catch(t, Bus, fs, TempFile(t, options[t].format),
                        DownloadFailed(code, errorOutput[t]))
               /\ UNCHANGED <<actualTempFile, tempFound, cutVars>>
  /\ UNCHANGED <<options, trimResponse, connVars, dlVars, cliVars, rateVars, clientVars>>

\* ffProcess.stderr.on('data'): hasTime, the chunk includes 'time='
FfStderr(t, hasTime) ==
  /\ ffProc[t] = "running"
  /\ ffChunks[t] < MaxFfChunks
  /\ ffChunks' = [ffChunks EXCEPT ![t] = @ + 1]
  /\ IF hasTime
       THEN BusBecomes(sendProgress(Bus, t, Event("trimming", 85, Msg("Memotong video...", 0))))
       ELSE UNCHANGED busVars
  /\ UNCHANGED <<options, trimResponse, connVars, fetchVars, cutPromise, ffProc, ffCode,
                 files, dlVars, cliVars, rateVars, clientVars>>

\* ffProcess.on('error')
FfError(t) ==
  /\ ffProc[t] = "running"
  /\ ffChunks[t] = 0
  /\ ffProc' = [ffProc EXCEPT ![t] = "errored"]
  /\ cutPromise' = [cutPromise EXCEPT ![t] = Settle(@, "rejected")]
  /\ IF Settles(cutPromise[t])
       THEN Catch(t, Bus, files, TempFile(t, options[t].format), Msg("spawn failed", 0))
       ELSE UNCHANGED <<busVars, files>>
  /\ UNCHANGED <<options, trimResponse, connVars, fetchVars, ffCode, ffChunks,
                 dlVars, cliVars, rateVars, clientVars>>

\* a 'close' handler that launches ffmpeg again when it failed
FfCloseRespawns(t, code, wrote) ==
  /\ ffProc[t] \in {"running", "errored"}
  /\ code # 0 /\ ~wrote
  /\ ffProc' = [ffProc EXCEPT ![t] = "running"]
  /\ ffCode' = [ffCode EXCEPT ![t] = code]
  /\ UNCHANGED <<options, trimResponse, busVars, connVars, fetchVars, cutPromise,
                 ffChunks, files, dlVars, cliVars, rateVars, clientVars>>

\* ffProcess.on('close'); wrote: ffmpeg wrote (-y: overwrote) the final file
FfClose(t, code, wrote) ==
  /\ ffProc[t] \in {"running", "errored"}
  /\ ffProc[t] = "running" => code \in {0, 1}
  /\ ffProc[t] = "errored" => code = -2 /\ ~wrote
  /\ ffProc' = [ffProc EXCEPT ![t] = "closed"]
  /\ ffCode' = [ffCode EXCEPT ![t] = code]
  /\ ffChunks' = [ffChunks EXCEPT ![t] = 0]
  /\ cutPromise' = [cutPromise EXCEPT ![t] = Settle(@, FfCloseOutcome(code))]
  /\ LET fs == IF wrote
                 THEN WrittenBy(files, {FinalFile(options[t].filename, options[t].format)}, t)
                 ELSE files
     IN IF ~Settles(cutPromise[t])
          THEN /\ files' = fs
               /\ UNCHANGED busVars
          ELSE IF FfCloseOutcome(code) = "resolved"
          THEN AfterCut(t, fs)
          ELSE Catch(t, Bus, fs, TempFile(t, options[t].format),
                     Msg("ffmpeg exited with code", code))
  /\ UNCHANGED <<options, trimResponse, connVars, fetchVars, dlVars, cliVars, rateVars, clientVars>>

\* GET /progress/:taskId: the 'connected' message, then the stream is stored.
\* Connections are numbered in the order they arrive
Subscribe(c, t) ==
  /\ connState[c] = "idle"
  /\ \A d \in Conns : d < c => connState[d] # "idle"
  /\ t \in DOMAIN options
  /\ connState' = [connState EXCEPT ![c] = "open"]
  /\ connTask' = [connTask EXCEPT ![c] = t]
  /\ received' = [received EXCEPT ![c] = Keep(Append(@, Connected))]
  /\ progressStreams' = MapSet(progressStreams, t, c)
  /\ UNCHANGED <<options, trimResponse, taskProgress, published, fetchVars, cutVars,
                 files, dlVars, cliVars, rateVars, clientVars>>

\* a close handler that drops the task's last snapshot as well
CloseConnDropsSnapshot(c) ==
  /\ connState[c] = "open"
  /\ connState' = [connState EXCEPT ![c] = "closed"]
  /\ progressStreams' = MapDelete(progressStreams, connTask[c])
  /\ taskProgress' = MapDelete(taskProgress, connTask[c])
  /\ UNCHANGED <<options, trimResponse, published, received, connTask,
                 fetchVars, cutVars, files, dlVars, cliVars, rateVars, clientVars>>

\* req.on('close') of a progress request
CloseConn(c) ==
  /\ connState[c] = "open"
  /\ connState' = [connState EXCEPT ![c] = "closed"]
  /\ progressStreams' = MapDelete(progressStreams, connTask[c])
  /\ UNCHANGED <<options, trimResponse, taskProgress, published, received, connTask,
                 fetchVars, cutVars, files, dlVars, cliVars, rateVars, clientVars>>

\* GET /download/:filename, asked by the client of task t for the file name
\* of its 'complete' event; streamOk: the read stream ends without an error
Download(t, streamOk) ==
  /\ t \in DOMAIN taskProgress
  /\ taskProgress[t].status = "complete"
  /\ dlTimer[t] < MaxDlTimers
  /\ LET filePath == FinalFile(options[t].filename, options[t].format) IN
     IF ~Exists(files, filePath)
       THEN /\ dlStatus' = [dlStatus EXCEPT ![t] = 404]
            /\ UNCHANGED dlTimer
       ELSE IF streamOk
       THEN /\ dlStatus' = [dlStatus EXCEPT ![t] = 200]
            /\ dlTimer' = [dlTimer EXCEPT ![t] = IF AutoDeleteAfterDownload THEN @ + 1 ELSE @]
       ELSE /\ dlStatus' = [dlStatus EXCEPT ![t] = 500]
            /\ UNCHANGED dlTimer
  /\ UNCHANGED <<options, trimResponse, busVars, connVars, fetchVars, cutVars, files,
                 cliVars, rateVars, clientVars>>

\* the setTimeout callback of GET /download: delete the file when it is there
DeleteAfterDownload(t, unlinkOk) ==
  /\ dlTimer[t] > 0
  /\ dlTimer' = [dlTimer EXCEPT ![t] = @ - 1]
  /\ LET filePath == FinalFile(options[t].filename, options[t].format) IN
     files' = IF Exists(files, filePath) /\ unlinkOk THEN Without(files, {filePath}) ELSE files
  /\ UNCHANGED <<options, trimResponse, busVars, connVars, fetchVars, cutVars,
                 dlStatus, cliVars, rateVars, clientVars>>

\* a window test that is always true
WindowAlwaysElapsed(record, time) == TRUE

\* now - record.startTime > config.rateLimit.windowMs
WindowElapsed(record, time) == time - record.startTime > RateLimitWindowMs

\* rateLimiter(req, res, next) for a request of address ip: next() or the
\* 429 response
RateLimiter(ip) ==
  /\ Len(rateLog[ip]) < MaxRateRequests
  /\ LET fresh == [count |-> 1, startTime |-> now]
         admit(ok) == rateLog' = [rateLog EXCEPT ![ip] = Append(@, [time |-> now, admitted |-> ok])]
     IN IF ip \notin DOMAIN rateLimitStore
          THEN rateLimitStore' = MapSet(rateLimitStore, ip, fresh) /\ admit(TRUE)
        ELSE IF WindowElapsed(rateLimitStore[ip], now)
          THEN rateLimitStore' = MapSet(rateLimitStore, ip, fresh) /\ admit(TRUE)
        ELSE IF rateLimitStore[ip].count >= RateLimitMax
          THEN UNCHANGED rateLimitStore /\ admit(FALSE)
        ELSE /\ rateLimitStore' = [rateLimitStore EXCEPT ![ip].count = @ + 1]
             /\ admit(TRUE)
  /\ UNCHANGED <<options, trimResponse, busVars, connVars, fetchVars, cutVars, files,
                 dlVars, cliVars, now, clientVars>>

\* the callback of the rate limit store's cleanup: entries whose window has
\* elapsed are deleted
RateCleanup ==
  /\ rateLimitStore' =
       [ip \in {i \in DOMAIN rateLimitStore : ~WindowElapsed(rateLimitStore[i], now)}
          |-> rateLimitStore[ip]]
  /\ UNCHANGED <<options, trimResponse, busVars, connVars, fetchVars, cutVars, files,
                 dlVars, cliVars, now, rateLog, clientVars>>

\* time passes
Tick ==
  /\ now < MaxNow
  /\ now' = now + 1
  /\ UNCHANGED <<options, trimResponse, busVars, connVars, fetchVars, cutVars, files,
                 dlVars, cliVars, rateLimitStore, rateLog, clientVars>>

\* the callback of the periodic cleanup: old, the files whose age is above
\* config.cleanup.cleanupIntervalMs at this run
Sweep(old, readdirOk, failing, before) ==
  /\ files # EmptyMap
  /\ failing \subseteq SweepVisits(files)
  /\ before \subseteq SweepVisits(files) \ failing
  /\ failing = {} => before = {}
  /\ files' = SweepDir(files, old, readdirOk, failing, before)
  /\ UNCHANGED <<options, trimResponse, busVars, connVars, fetchVars, cutVars,
                 dlVars, cliVars, rateVars, clientVars>>

\* download(content) of the CLI, from the computed duration on (cliStart and
\* cliEnd are the time strings after the prompts for missing ones): the check
\* of the duration, then the three execSync calls, any of which may throw
CliDownload ==
  /\ cliResult = "none"
  /\ LET duration == NumSub(timeToSeconds(cliEnd), timeToSeconds(cliStart)) IN
     /\ cliDuration' = duration
     /\ IF NumLeqZero(duration)
          THEN /\ cliResult' = "invalid"
               /\ cliSpawned' = FALSE
          ELSE /\ cliSpawned' = TRUE
               /\ cliResult' \in {"success", "error"}
  /\ UNCHANGED <<options, trimResponse, busVars, connVars, fetchVars, cutVars, files,
                 dlVars, cliStart, cliEnd, rateVars, clientVars>>

\* yt-dlp ends: with code 0 or 1 when it ran, with a negative code when it
\* could not be spawned, leaving any of its artifacts behind
YtExit(t) ==
  /\ t \in DOMAIN options
  /\ \E code \in {-2, 0, 1} :
       \E produced \in YtArtifacts(t, options[t].format) : YtClose(t, code, produced)

\* ffmpeg ends, having written the final file or not
FfExit(t) ==
  /\ t \in DOMAIN options
  /\ \E code \in {-2, 0, 1}, wrote \in BOOLEAN : FfClose(t, code, wrote)

\* ------------------------------------------------------------ specifications
\* the steps of the pipelines, the directory and the downloads
PipelineNext ==
  \/ \E body \in Requests : Trim(body)
  \/ \E t \in Tasks, output \in YtStdoutChunks : YtStdout(t, output)
  \/ \E t \in Tasks, output \in YtStderrChunks : YtStderr(t, output)
  \/ \E t \in Tasks : YtError(t)
  \/ \E t \in Tasks : YtExit(t)
  \/ \E t \in Tasks, hasTime \in BOOLEAN : FfStderr(t, hasTime)
  \/ \E t \in Tasks : FfError(t)
  \/ \E t \in Tasks : FfExit(t)
  \/ \E t \in Tasks, streamOk \in BOOLEAN : Download(t, streamOk)
  \/ \E t \in Tasks, unlinkOk \in BOOLEAN : DeleteAfterDownload(t, unlinkOk)

\* the steps of the progress connections
ConnNext ==
  \/ \E c \in Conns, t \in Tasks : Subscribe(c, t)
  \/ \E c \in Conns : CloseConn(c)

\* a run of the periodic cleanup, with any ages of the files and at most
\* one failing inspection or deletion
SweepStep ==
  \E old \in SUBSET DOMAIN files, readdirOk \in BOOLEAN :
    \E failing \in Undeletables(SweepVisits(files)) :
      \E before \in SUBSET SweepVisits(files) : Sweep(old, readdirOk, failing, before)

\* the steps of the rate limiter
RateNext ==
  \/ \E ip \in Ips : RateLimiter(ip)
  \/ RateCleanup
  \/ Tick

\* ---------------------------------------------------------------------
\* The browser client: the submit button, the /trim request and the progress
\* stream.  The server is the environment of the client: its answers and the
\* events of the stream are inputs.

serverVars == <<options, trimResponse, busVars, connVars, fetchVars, cutVars, files,
                dlVars, cliVars, rateVars>>

\* the statuses a progress event can carry
EventStatuses == {"starting", "downloading", "trimming", "cleaning", "complete", "error"}

\* resetButton(): the submit button is enabled again
resetButton(disabled) == FALSE

\* handleSubmit() up to its await: the click on the enabled button; a form
\* that fails the validation returns with the button untouched, a valid form
\* disables the button, shows 'starting' and sends the request
HandleSubmit(valid) ==
  /\ ~submitDisabled
  /\ trimPending < MaxInFlight
  /\ IF valid
       THEN /\ submitDisabled' = TRUE
            /\ shownStatus' = "starting"
            /\ trimPending' = trimPending + 1
       ELSE UNCHANGED <<submitDisabled, shownStatus, trimPending>>
  /\ UNCHANGED <<eventSource, downloadTimers, resetTimers, serverVars>>

\* handleSubmit() after its await: an accepted request connects to the
\* progress stream of the task (closing a stream that is open); a rejected
\* request, a failed fetch or an answer without a task id goes to the catch
\* block, which resets the button
TrimSettles(accepted) ==
  /\ trimPending > 0
  /\ trimPending' = trimPending - 1
  /\ IF accepted
       THEN /\ eventSource' = TRUE
            /\ UNCHANGED submitDisabled
       ELSE /\ submitDisabled' = resetButton(submitDisabled)
            /\ UNCHANGED eventSource
  /\ UNCHANGED <<shownStatus, downloadTimers, resetTimers, serverVars>>

\* eventSource.onmessage: an event that does not parse is dropped; a parsed
\* event is shown; 'complete' with a file name arms the download timer and
\* closes the stream; 'error' closes the stream and resets the button
OnMessage(parses, status, hasFilename) ==
  /\ eventSource
  /\ IF ~parses
       THEN UNCHANGED <<submitDisabled, eventSource, shownStatus, downloadTimers>>
       ELSE /\ shownStatus' = status
            /\ IF status = "complete" /\ hasFilename
                 THEN /\ downloadTimers + resetTimers < MaxClientTimers
                      /\ downloadTimers' = downloadTimers + 1
                      /\ eventSource' = FALSE
                      /\ UNCHANGED submitDisabled
                 ELSE IF status = "error"
                   THEN /\ eventSource' = FALSE
                        /\ submitDisabled' = resetButton(submitDisabled)
                        /\ UNCHANGED downloadTimers
                   ELSE UNCHANGED <<submitDisabled, eventSource, downloadTimers>>
  /\ UNCHANGED <<trimPending, resetTimers, serverVars>>

\* eventSource.onerror: the stream is closed and forgotten, nothing else
OnError ==
  /\ eventSource
  /\ eventSource' = FALSE
  /\ UNCHANGED <<submitDisabled, trimPending, shownStatus, downloadTimers, resetTimers,
                 serverVars>>

\* triggerDownload(), run by the 500 ms timer: the download starts and the
\* 2000 ms timer is armed
TriggerDownload ==
  /\ downloadTimers > 0
  /\ downloadTimers' = downloadTimers - 1
  /\ resetTimers' = resetTimers + 1
  /\ UNCHANGED <<submitDisabled, eventSource, trimPending, shownStatus, serverVars>>

\* the 2000 ms timer of triggerDownload(): resetButton() and hideProgress()
ResetTimer ==
  /\ resetTimers > 0
  /\ resetTimers' = resetTimers - 1
  /\ submitDisabled' = resetButton(submitDisabled)
  /\ UNCHANGED <<eventSource, trimPending, shownStatus, downloadTimers, serverVars>>

\* handleReset(): the reset button closes an open stream and resets the
\* submit button
HandleReset ==
  /\ eventSource' = FALSE
  /\ submitDisabled' = resetButton(submitDisabled)
  /\ UNCHANGED <<trimPending, shownStatus, downloadTimers, resetTimers, serverVars>>

\* the steps of the browser client
ClientNext ==
  \/ \E valid \in BOOLEAN : HandleSubmit(valid)
  \/ \E accepted \in BOOLEAN : TrimSettles(accepted)
  \/ \E parses \in BOOLEAN, status \in EventStatuses, hasFilename \in BOOLEAN :
       OnMessage(parses, status, hasFilename)
  \/ OnError
  \/ TriggerDownload
  \/ ResetTimer
  \/ HandleReset

Next == PipelineNext \/ ConnNext \/ SweepStep \/ RateNext \/ ClientNext

Spec == Init /\ [][Next]_vars

\* the stages of concurrent tasks: video requests and the events of the two
\* subprocesses
StagesNext ==
  \/ \E body \in {b \in Requests : b.format = "mp4"} : Trim(body)
  \/ \E t \in Tasks, output \in YtStdoutChunks : YtStdout(t, output)
  \/ \E t \in Tasks, output \in YtStderrChunks : YtStderr(t, output)
  \/ \E t \in Tasks : YtError(t)
  \/ \E t \in Tasks : YtExit(t)
  \/ \E t \in Tasks, hasTime \in BOOLEAN : FfStderr(t, hasTime)
  \/ \E t \in Tasks : FfError(t)
  \/ \E t \in Tasks : FfExit(t)

SpecStages == Init /\ [][StagesNext]_vars

\* the directory: requests, the ends of the subprocesses and the downloads.
\* The 'data' handlers, which leave the directory and the promises alone, are
\* left out
FilesNext ==
  \/ \E body \in Requests : Trim(body)
  \/ \E t \in Tasks : YtError(t)
  \/ \E t \in Tasks : YtExit(t)
  \/ \E t \in Tasks : FfError(t)
  \/ \E t \in Tasks : FfExit(t)
  \/ \E t \in Tasks, streamOk \in BOOLEAN : Download(t, streamOk)
  \/ \E t \in Tasks, unlinkOk \in BOOLEAN : DeleteAfterDownload(t, unlinkOk)

SpecFiles == Init /\ [][FilesNext]_vars

\* one task and the progress connections of its clients
BusNext ==
  \/ \E body \in Requests : options = EmptyMap /\ Trim(body)
  \/ \E t \in Tasks, output \in YtStdoutChunks : YtStdout(t, output)
  \/ \E t \in Tasks, output \in YtStderrChunks : YtStderr(t, output)
  \/ \E t \in Tasks : YtError(t)
  \/ \E t \in Tasks : YtExit(t)
  \/ \E t \in Tasks, hasTime \in BOOLEAN : FfStderr(t, hasTime)
  \/ \E t \in Tasks : FfError(t)
  \/ \E t \in Tasks : FfExit(t)
  \/ \E c \in Conns, t \in Tasks : Subscribe(c, t)
  \/ \E c \in Conns : CloseConn(c)

SpecBus == Init /\ [][BusNext]_vars

\* every subprocess that was launched ends: it exits or fails to spawn, and
\* Node then emits 'close'
SubprocessesEnd == \A t \in Tasks : WF_vars(YtExit(t)) /\ WF_vars(FfExit(t))

FairBus == SpecBus /\ SubprocessesEnd

\* the CLI, run once with any pair of time strings
InitCliRun == InitServer /\ InitCli

SpecCli == InitCliRun /\ [][CliDownload]_vars

\* the CLI run with well-formed time strings: any of them as the end, and no
\* start (an empty answer to the prompt) or one of two fixed ones
InitCliTimes ==
  /\ InitServer
  /\ cliStart \in {TimeEmpty, TimeA, TimeShort}
  /\ cliEnd \in WellFormedTimes \cup {TimeEmpty}
  /\ cliDuration = Num(0)
  /\ cliResult = "none"
  /\ cliSpawned = FALSE

SpecTime == InitCliTimes /\ [][CliDownload]_vars

\* two tasks on the shared progress bus: accepted requests, the fetch stage
\* up to the launch of ffmpeg, and the progress connections
SharedBusNext ==
  \/ Trim(Request(TRUE, TimeA, TimeB, "mp4"))
  \/ \E t \in Tasks : YtError(t)
  \/ \E t \in Tasks : YtExit(t)
  \/ \E c \in Conns, t \in Tasks : Subscribe(c, t)
  \/ \E c \in Conns : CloseConn(c)

SpecSharedBus == Init /\ [][SharedBusNext]_vars

\* the browser client alone
SpecClient == Init /\ [][ClientNext]_vars

\* a request in flight is answered or fails, and an armed timer fires
ClientProgress ==
  /\ WF_vars(\E accepted \in BOOLEAN : TrimSettles(accepted))
  /\ WF_vars(TriggerDownload)
  /\ WF_vars(ResetTimer)

FairClient == SpecClient /\ ClientProgress

\* the rate limiter alone, in front of an idle server
SpecRate == Init /\ [][RateNext]_vars

\* the directory under the periodic cleanup: requests, the ends of the
\* subprocesses and the runs of the cleanup
SweepNext ==
  \/ \E body \in Requests : Trim(body)
  \/ \E t \in Tasks : YtError(t)
  \/ \E t \in Tasks : YtExit(t)
  \/ \E t \in Tasks : FfError(t)
  \/ \E t \in Tasks : FfExit(t)
  \/ SweepStep

SpecSweep == Init /\ [][SweepNext]_vars

\* the resolver: two accepted requests, the second of which may name its
\* output after the first task, and the ends of the subprocesses
ResolverNext ==
  \/ Trim(Request(TRUE, TimeA, TimeB, "mp4"))
  \/ 1 \in DOMAIN options /\ Trim(RequestNamedAfterFirst)
  \/ \E t \in Tasks : YtError(t)
  \/ \E t \in Tasks : YtExit(t)
  \/ \E t \in Tasks : FfError(t)
  \/ \E t \in Tasks : FfExit(t)

SpecResolver == Init /\ [][ResolverNext]_vars

\* the fetch stage of one task reading the downloader's output: its first
\* chunk is one line with any percentage token, the chunks after it are the
\* usual ones
ScaleNext ==
  \/ \E body \in Requests : options = EmptyMap /\ Trim(body)
  \/ \E t \in Tasks, p \in RawPercents :
       ytChunks[t] = 0 /\ YtStdout(t, <<Line(p)>>)
  \/ \E t \in Tasks, p \in RawPercents :
       ytChunks[t] = 0 /\ YtStderr(t, <<Line(p)>>)
  \/ \E t \in Tasks, output \in YtStdoutChunks :
       ytChunks[t] > 0 /\ YtStdout(t, output)
  \/ \E t \in Tasks, output \in YtStderrChunks :
       ytChunks[t] > 0 /\ YtStderr(t, output)

SpecScale == Init /\ [][ScaleNext]_vars

\* ------------------------------------------------------------------ claims
\* consecutive events of the kept part of a task's log
Pairs(t) == 1..(Len(published[t]) - 1)

\* C1 as stated: for every task the percents of the published events, error
\* events included, are non-decreasing in publish order.
C1_PercentNonDecreasing ==
  \A t \in Tasks : \A i \in Pairs(t) :
    published[t][i].progress <= published[t][i + 1].progress

\* C1, amended: the percents of a task's events other than 'error' are
\* non-decreasing in publish order, and an 'error' event reports percent 0.
C1_PercentNonDecreasingUntilError ==
  \A t \in Tasks :
    /\ \A i \in Pairs(t) :
         published[t][i + 1].status # "error"
           => published[t][i].progress <= published[t][i + 1].progress
    /\ \A i \in DOMAIN published[t] :
         published[t][i].status = "error" => published[t][i].progress = 0

\* a task published a raised download percent, a later event, then an error
C1_ErrorAfterRaisedPercent ==
  \E t \in Tasks : \E i \in Pairs(t) :
    /\ i > 1
    /\ published[t][i - 1].status = "downloading"
    /\ published[t][i - 1].progress > 5
    /\ published[t][i - 1].progress < published[t][i].progress
    /\ published[t][i + 1].status = "error"

\* task t has published a terminal event
IsTerminal(t) == t \in DOMAIN taskProgress /\ taskProgress[t].status \in Terminal

\* C4: every accepted task eventually publishes a terminal event, given that
\* each subprocess it launches eventually exits or fails to spawn.
C4_AcceptedTaskTerminates ==
  \A t \in Tasks : (t \in DOMAIN options) ~> IsTerminal(t)

\* a task whose cut stage exited non-zero has published its error event
C4_CutFailedAndTerminal ==
  \E t \in Tasks :
    /\ ffProc[t] = "closed" /\ ffCode[t] = 1
    /\ IsTerminal(t) /\ taskProgress[t].status = "error"

\* the step in which the running cut stage of task t exits non-zero
CutFails(t) == ffProc[t] = "running" /\ ffProc'[t] = "closed" /\ ffCode'[t] = 1

\* the step published an error event as the last event of task t
PublishesError(t) ==
  /\ published'[t] # published[t]
  /\ published'[t][Len(published'[t])].status = "error"

\* the names the step removed from the directory
Removed == DOMAIN files \ DOMAIN files'

C6_CutOnlyAfterFetchSucceeded ==
  \A t \in Tasks :
    /\ ffProc[t] # "none"
         => (/\ ytProc[t] = "closed" /\ ytCode[t] = 0
             /\ fetchPromise[t] = "resolved" /\ tempFound[t])
    /\ (fetchPromise[t] = "rejected" \/ (ytProc[t] = "closed" /\ ~tempFound[t]))
         => ffProc[t] = "none"

\* a cut stage runs on a download that was resolved to a decorated name, next
\* to a task whose fetch failed
C6_CutRunsOnResolvedFile ==
  \E t, u \in Tasks :
    /\ ffProc[t] = "running" /\ ytCode[t] = 0
    /\ actualTempFile[t] # TempFile(t, options[t].format)
    /\ Exists(files, actualTempFile[t])
    /\ ytProc[u] = "closed" /\ ytCode[u] = 1 /\ ffProc[u] = "none"

\* a terminal event is the last event of its log
TerminalIsLast(log) ==
  \A i \in 1..(Len(log) - 1) : log[i].status \notin Terminal

\* C7: once a task has published 'complete' or 'error', no further event is
\* published for it: each task publishes exactly one terminal event.
C7_NothingAfterTerminal ==
  [][\A t \in Tasks :
       /\ TerminalIsLast(published'[t])
       /\ IsTerminal(t)
            => (published'[t] = published[t] /\ taskProgress'[t] = taskProgress[t])]_vars

\* a subprocess that could not be spawned emitted 'error' and then 'close',
\* and the task has published its error event
C7_CloseAfterError ==
  \E t \in Tasks :
    /\ ytProc[t] = "closed" /\ ytCode[t] = -2
    /\ IsTerminal(t) /\ taskProgress[t].status = "error"

\* connection c has received a terminal event
ReceivedTerminal(c) ==
  \E i \in DOMAIN received[c] : received[c][i].status \in Terminal

\* C2: a client that opens /progress/<taskId> for its accepted task always
\* eventually receives a terminal event on that connection (as long as the
\* connection stays open), whenever it subscribes.
C2_SubscriberEventuallySeesTerminal ==
  \A c \in Conns :
    [](connState[c] = "open" => <>(ReceivedTerminal(c) \/ connState[c] = "closed"))

\* C3: subscribing to a task whose last published event is terminal
\* immediately delivers the stored snapshot to the new subscriber.
C3_SubscribeReplaysSnapshot ==
  [][\A c \in Conns :
       (/\ connState[c] = "idle"
        /\ connState'[c] = "open"
        /\ connTask'[c] \in DOMAIN taskProgress
        /\ taskProgress[connTask'[c]].status \in Terminal)
         => (/\ received'[c] # <<>>
             /\ received'[c][Len(received'[c])] = taskProgress[connTask'[c]])]_vars

\* the events a step published for task t were written to connection c, in
\* publish order
Delivered(t, c) ==
  \E k \in 1..LogTail :
    /\ k <= Len(published'[t])
    /\ LET evs == LastK(published'[t], k)
       IN /\ published'[t] = Keep(published[t] \o evs)
          /\ received'[c] = Keep(received[c] \o evs)

\* C9: when a second subscriber connected to a task after a first, every
\* event published for the task while the second connection is open is
\* written to it, whether or not the first connection has closed.
C9_LatestSubscriberReceivesAll ==
  [][\A c \in Conns : \A t \in Tasks :
       (/\ connState[c] = "open" /\ connTask[c] = t
        /\ \E first \in Conns : first < c /\ connTask[first] = t
        /\ \A later \in Conns : later > c => connState[later] = "idle"
        /\ published'[t] # published[t])
         => Delivered(t, c)]_vars

\* the final output of task t, once t has published 'complete', is in the
\* directory as t wrote it
HasFinalOutput(fs, t) ==
  LET finalFile == FinalFile(options[t].filename, options[t].format)
  IN Exists(fs, finalFile) /\ fs[finalFile] = t

\* C10: the final output of a completed task is never overwritten or deleted
\* by the pipeline or the download handling of another task; it goes only
\* when its own download has ended.
C10_FinalOutputKeptFromOtherTasks ==
  [][\A t \in DOMAIN options :
       (/\ IsTerminal(t) /\ taskProgress[t].status = "complete"
        /\ HasFinalOutput(files, t))
         => (HasFinalOutput(files', t) \/ (dlTimer'[t] < dlTimer[t]))]_vars

\* C8: no subprocess is launched for a request whose computed duration is not
\* a number greater than 0, in the CLI and in /trim. Stated of the code, this
\* fails in the CLI: its check is duration <= 0, which a NaN duration passes.
C8_SpawnOnlyForPositiveDuration ==
  /\ cliSpawned => (~cliDuration.nan /\ cliDuration.v > 0)
  /\ \A t \in DOMAIN options :
       ytProc[t] # "none" => (~options[t].duration.nan /\ options[t].duration.v > 0)

\* the law of the reported percent of a raw percentage, in tenths of a
\* percent: min(5 + p * 0.6, 65) rounded to the nearest integer
ReportedPercent(p) ==
  LET x == 500 + 6 * p
      capped == IF x < 6500 THEN x ELSE 6500
  IN (capped + 50) \div 100

\* the event a handler published in this step out of a percentage token
ParsedEvent(t) ==
  /\ ytChunks'[t] = ytChunks[t] + 1
  /\ published'[t] # published[t]

\* C11: a raw download percentage p from the downloader maps to the reported
\* percent min(5 + p * 0.6, 65) rounded to the nearest integer, so that 0
\* gives 5, 50 gives 35 and 100 gives 65; every event a handler publishes out
\* of a percentage token reports that value for a token that rounds to the
\* percentage of its message (the token itself when it came on stderr), and
\* no 'downloading' event reports less than 5 or more than 65.
C11_DownloadPercentScaled ==
  [][/\ RoundMilli(ScaledProgress(0)) = 5
     /\ RoundMilli(ScaledProgress(500)) = 35
     /\ RoundMilli(ScaledProgress(1000)) = 65
     /\ \A t \in Tasks :
          /\ \A i \in DOMAIN published'[t] :
               published'[t][i].status = "downloading"
                 => published'[t][i].progress \in 5..65
          /\ ParsedEvent(t) =>
               LET e == published'[t][Len(published'[t])]
               IN \E p \in RawPercents :
                    /\ e.status = "downloading"
                    /\ e.message.n = RoundTenth(p)
                    /\ e.progress = ReportedPercent(p)
                    /\ errorOutput'[t] # errorOutput[t]
                         => errorOutput'[t][Len(errorOutput'[t])].pct = p]_vars

\* a token of 50 % was reported as 35, and one above 100 % as 65
C11_HalfReportedAs35 ==
  \E t \in Tasks : \E i \in DOMAIN published[t] :
    /\ published[t][i].status = "downloading"
    /\ published[t][i].message = Msg("Mengunduh video...", 50)
    /\ published[t][i].progress = 35
    /\ ytChunks[t] = 1

\* C12: a 'downloading' event built from a percentage token is published only
\* when its reported percent is strictly greater than the percent the task
\* reported before it, so that no two consecutive events of a task report the
\* same percent.
C12_ParsedPercentStrictlyIncreases ==
  \A t \in Tasks : \A i \in Pairs(t) :
    published[t][i + 1].message.text = "Mengunduh video..."
      => published[t][i + 1].progress > published[t][i].progress

\* the step in which the client of connection c closes it
ConnCloses(c) == connState[c] = "open" /\ connState'[c] = "closed"

\* C13: a client closing its progress connection removes that task's entry
\* from the registry of streams and nothing else: the subprocesses, the
\* promises of the stages, the published events and the stored last snapshot
\* are unchanged by the step; the task's pipeline still reaches a terminal
\* event, and a snapshot once stored stays stored under the same task id.
C13_DisconnectOnlyUnregisters ==
  /\ [][\A c \in Conns : ConnCloses(c) =>
          /\ progressStreams' = MapDelete(progressStreams, connTask[c])
          /\ UNCHANGED <<options, taskProgress, published, fetchVars, cutVars, files>>]_vars
  /\ [][\A t \in DOMAIN taskProgress : t \in DOMAIN taskProgress']_vars
  /\ \A c \in Conns : \A t \in Tasks :
       (connState[c] = "closed" /\ connTask[c] = t) ~> IsTerminal(t)

\* a client left before its task published anything more, and the task
\* completed all the same
C13_CompletedAfterDisconnect ==
  \E c \in Conns :
    /\ connState[c] = "closed"
    /\ received[c] = <<Connected>>
    /\ connTask[c] \notin DOMAIN progressStreams
    /\ IsTerminal(connTask[c])
    /\ taskProgress[connTask[c]].status = "complete"

\* the step in which POST /trim answers a request that failed validation
TrimRejected == trimResponse' # trimResponse /\ trimResponse'.status = 400

\* C14: when the validation of a request fails, POST /trim answers with an
\* error response and creates no task: the response carries no task id, no
\* subprocess is launched, no progress event is published, and the registry
\* of streams and the stored snapshots are unchanged, whatever the other
\* tasks are doing.
C14_RejectedRequestCreatesNothing ==
  [][TrimRejected =>
       /\ trimResponse'.taskId = 0
       /\ UNCHANGED <<options, progressStreams, taskProgress, published, received,
                      fetchVars, cutVars, files>>]_vars

\* a request was rejected while an accepted task was downloading
C14_RejectedNextToRunningTask ==
  /\ trimResponse.status = 400
  /\ DOMAIN options = {1}
  /\ ytProc[1] = "running"
  /\ ytProc[2] = "none" /\ published[2] = <<>>

\* the event that task t published in this step
Publishes(t) == published'[t] # published[t]

\* C15: an event carries a filename if and only if its status is 'complete',
\* and in the step that publishes a 'complete' event the file of that name
\* exists in the output directory.
C15_FilenameOnlyOnCompleteAndFileExists ==
  [][\A t \in Tasks :
       /\ \A i \in DOMAIN published'[t] :
            ("filename" \in DOMAIN published'[t][i])
              <=> (published'[t][i].status = "complete")
       /\ (Publishes(t) /\ published'[t][Len(published'[t])].status = "complete")
            => Exists(files', published'[t][Len(published'[t])].filename)]_vars

\* a task has published 'complete' with the name of its final file while
\* its janitor could not delete a temporary file
C15_CompleteNamesFinalFile ==
  \E t \in DOMAIN taskProgress :
    /\ taskProgress[t].status = "complete"
    /\ taskProgress[t].filename = FinalFile(options[t].filename, options[t].format)
    /\ Exists(files, taskProgress[t].filename)
    /\ \E f \in DOMAIN files : f # taskProgress[t].filename

\* the step in which GET /download answers the client of task t
DownloadAnswered(t) == dlStatus'[t] # dlStatus[t] \/ dlTimer'[t] > dlTimer[t]

\* C16: with deletion after download enabled, the final file of a completed
\* task can be downloaded once: when a download of it has been served to the
\* end of its stream, the next request for the same file name is answered
\* not-found, whenever it arrives.
C16_SecondDownloadNotFound ==
  [][\A t \in Tasks :
       (AutoDeleteAfterDownload /\ dlStatus[t] = 200 /\ DownloadAnswered(t))
         => (dlStatus'[t] = 404 /\ dlTimer'[t] = dlTimer[t])]_vars

\* C17: the entry of every task is eventually dropped from both registries
\* of the progress bus, the streams and the stored snapshots, so that the
\* registries do not grow without bound.
C17_RegistryEntriesEventuallyDropped ==
  \A t \in Tasks :
    (t \in DOMAIN taskProgress)
      ~> (t \notin DOMAIN taskProgress /\ t \notin DOMAIN progressStreams)

\* the steps in which the fetch subprocess, the cut subprocess of task t is
\* launched
LaunchesFetch(t) == ytProc[t] # "running" /\ ytProc'[t] = "running"

LaunchesCut(t) == ffProc[t] # "running" /\ ffProc'[t] = "running"

\* C18: no stage is retried: for each task the fetch subprocess is launched
\* at most once and the cut subprocess at most once; a launch happens only
\* for a stage that has had neither a process nor a promise yet.
C18_EachStageLaunchedAtMostOnce ==
  [][\A t \in Tasks :
       /\ LaunchesFetch(t) => (ytProc[t] = "none" /\ fetchPromise[t] = "none")
       /\ LaunchesCut(t) => (ffProc[t] = "none" /\ cutPromise[t] = "none")]_vars

\* one task's fetch stage and another task's cut stage have failed, and
\* both tasks ended in 'error'
C18_FailedStagesNotRelaunched ==
  \E t, u \in DOMAIN taskProgress :
    /\ ytProc[t] = "closed" /\ ytCode[t] = 1 /\ ffProc[t] = "none"
    /\ taskProgress[t].status = "error"
    /\ ffProc[u] = "closed" /\ ffCode[u] = 1
    /\ taskProgress[u].status = "error"

\* the value of a two-digit segment
SegmentValue(seg) == 10 * DigitVal(seg[1]) + DigitVal(seg[2])

\* 3600 H + 60 M + S of a well-formed HH:MM:SS or MM:SS, the fraction of its
\* last segment dropped; 0 for the empty string
HoursMinutesSeconds(str) ==
  LET w == IF Len(str) \in {7, 10} THEN SubSeq(str, 1, Len(str) - 2) ELSE str
  IN IF w = <<>> THEN 0
     ELSE IF Len(w) = 5
       THEN 60 * SegmentValue(SubSeq(w, 1, 2)) + SegmentValue(SubSeq(w, 4, 5))
     ELSE 3600 * SegmentValue(SubSeq(w, 1, 2)) + 60 * SegmentValue(SubSeq(w, 4, 5))
            + SegmentValue(SubSeq(w, 7, 8))

\* C19: timeToSeconds reads the ':'-separated segments from right to left as
\* seconds, minutes and hours and returns their sum: for every well-formed
\* HH:MM:SS or MM:SS it gives 3600 H + 60 M + S, with the fraction of the
\* last segment truncated and 0 for the empty string ("00:03:01" gives 181,
\* "04:05" gives 245), so the duration the CLI computed is the difference of
\* these values of its end and its start.
C19_TimeToSecondsIsHoursMinutesSeconds ==
  cliResult # "none" =>
    /\ cliDuration = Num(HoursMinutesSeconds(cliEnd) - HoursMinutesSeconds(cliStart))
    /\ (cliStart = TimeEmpty /\ cliEnd = TimeA) => cliDuration = Num(181)
    /\ (cliStart = TimeEmpty /\ cliEnd = TimeShort) => cliDuration = Num(245)
    /\ (cliStart = TimeEmpty /\ cliEnd = TimeFrac) => cliDuration = Num(181)
    /\ (cliStart = TimeEmpty /\ cliEnd = TimeEmpty) => cliDuration = Num(0)

\* the CLI has converted "59:59:59" with no start
C19_ConvertedLargestTime ==
  /\ cliResult # "none"
  /\ cliStart = TimeEmpty
  /\ cliEnd = <<"5", "9", ":", "5", "9", ":", "5", "9">>
  /\ cliDuration = Num(215999)

\* the place of a status in the order of the pipeline
StatusRank(status) ==
  CASE status = "downloading" -> 1
    [] status = "trimming" -> 2
    [] status = "cleaning" -> 3
    [] status = "complete" -> 4
    [] status = "error" -> 5

\* the fetch stage, the cut stage of task t has failed: its spawn failed, it
\* exited non-zero or its promise was rejected
FetchFailed(t) ==
  \/ ytProc[t] = "errored"
  \/ ytProc[t] = "closed" /\ ytCode[t] # 0
  \/ fetchPromise[t] = "rejected"

CutFailed(t) ==
  \/ ffProc[t] = "errored"
  \/ ffProc[t] = "closed" /\ ffCode[t] # 0
  \/ cutPromise[t] = "rejected"

\* C20: the statuses a task publishes follow the order downloading,
\* trimming, cleaning, complete without going back, 'error' may follow any
\* status that is not terminal and nothing follows a terminal one; a task
\* whose fetch stage or cut stage failed publishes neither 'cleaning' nor
\* 'complete'.
C20_StatusesInPipelineOrder ==
  \A t \in Tasks :
    /\ \A i \in Pairs(t) :
         /\ published[t][i].status \notin Terminal
         /\ StatusRank(published[t][i].status) <= StatusRank(published[t][i + 1].status)
    /\ (FetchFailed(t) \/ CutFailed(t)) =>
         \A i \in DOMAIN published[t] :
           published[t][i].status \notin {"cleaning", "complete"}

\* a task went from 'trimming' to 'error' when ffmpeg exited non-zero,
\* beside a task that went through 'cleaning' to 'complete'
C20_ErrorAfterTrimmingBesideComplete ==
  \E t, u \in Tasks :
    /\ Len(published[t]) = 3 /\ Len(published[u]) = 3
    /\ [i \in 1..3 |-> published[t][i].status] = <<"trimming", "trimming", "error">>
    /\ ffCode[t] = 1
    /\ [i \in 1..3 |-> published[u][i].status] = <<"trimming", "cleaning", "complete">>

\* the step in which the running cut stage of task t exits with code 0
CutSucceeds(t) == ffProc[t] = "running" /\ ffProc'[t] = "closed" /\ ffCode'[t] = 0

\* C21: while the cut stage runs, each chunk of its output that shows
\* activity publishes a 'trimming' event with the fixed percent 85, and when
\* the cut stage exits 0 the task publishes an event with percent 95 before
\* any 'cleaning' event.
C21_Reports95BeforeCleaning ==
  [][\A t \in Tasks :
       /\ (ffChunks'[t] = ffChunks[t] + 1 /\ Publishes(t)) =>
            /\ published'[t][Len(published'[t])].status = "trimming"
            /\ published'[t][Len(published'[t])].progress = 85
       /\ CutSucceeds(t) =>
            \E i \in DOMAIN published'[t] :
              /\ published'[t][i].progress = 95
              /\ \A j \in DOMAIN published'[t] :
                   published'[t][j].status = "cleaning" => i < j]_vars

\* C22: a failure during the cleanup never changes the outcome of a task:
\* when its cut stage exits 0 and the final file exists, the task publishes
\* 'cleaning' and then 'complete' in that turn, whether or not listing the
\* directory or deleting a temp file failed, and no event reports a failure
\* of the cleanup.
C22_CleanupFailureKeepsOutcome ==
  [][\A t \in DOMAIN options :
       LET finalFile == FinalFile(options[t].filename, options[t].format)
           n == Len(published'[t])
       IN (CutSucceeds(t) /\ cutPromise[t] = "pending" /\ Exists(files', finalFile))
            => /\ n >= 2
               /\ published'[t][n] = CompleteEvent(finalFile)
               /\ published'[t][n - 1] =
                    Event("cleaning", 96, Msg("Membersihkan file temporary...", 0))]_vars

\* a task is complete although a temp file carrying its id is still in the
\* directory: its deletion, or the listing, failed
C22_CompleteWithTempLeft ==
  \E t \in DOMAIN taskProgress :
    /\ taskProgress[t].status = "complete"
    /\ \E f \in DOMAIN files : Includes(f, TaskId(t)) /\ StartsWith(f, <<"temp_">>)

\* the files of a directory whose names start with the temp base name of
\* task t
TempPrefixed(fs, t) ==
  LET tempFile == TempFile(t, options[t].format)
  IN {f \in DOMAIN fs : StartsWith(f, BaseName(tempFile, ExtName(tempFile)))}

FetchSucceeds(t) == ytProc[t] = "running" /\ ytProc'[t] = "closed" /\ ytCode'[t] = 0

\* a name ends in one of the media extensions the resolver knows
IsMedia(name) ==
  EndsWith(name, ".mp4") \/ EndsWith(name, ".mp3") \/ EndsWith(name, ".webm")
    \/ EndsWith(name, ".mkv")

\* C24: when the fetch stage of a task exits 0 the resolver returns the
\* intended temp path when that path exists; otherwise a file of the
\* directory whose name starts with the intended base name and ends in a
\* known media extension; otherwise the intended path, and then the task
\* publishes 'error' without launching the cut stage. The file it returns
\* never belongs to another task.
C24_ResolverReturnsOwnFile ==
  [][\A t \in DOMAIN options :
       LET tempFile == TempFile(t, options[t].format)
           actual == actualTempFile'[t]
       IN (FetchSucceeds(t) /\ actual # <<>>) =>
            /\ Exists(files', tempFile) => actual = tempFile
            /\ actual # tempFile =>
                 /\ StartsWith(actual, BaseName(tempFile, ExtName(tempFile)))
                 /\ IsMedia(actual)
            /\ ~tempFound'[t] =>
                 /\ actual = tempFile
                 /\ ffProc'[t] = "none"
                 /\ taskProgress'[t].status = "error"
            /\ Exists(files', actual) => files'[actual] = t]_vars

\* C25: a run of the periodic sweep removes every file whose name starts
\* with the temp prefix, whatever its extension, once it is older than the
\* age threshold, a file that cannot be inspected or deleted does not keep
\* it from removing the others, and it removes no file without the temp
\* prefix: so every old leftover is gone after a run in which its own
\* inspection and deletion did not fail.
C25_SweepRemovesEveryOldTempFile ==
  \A old \in SUBSET DOMAIN files :
    \A failing \in Undeletables(SweepVisits(files)) :
      \A before \in SUBSET (SweepVisits(files) \ failing) :
        LET after == SweepDir(files, old, TRUE, failing, before)
        IN /\ \A f \in old \ failing : StartsWith(f, <<"temp_">>) => ~Exists(after, f)
           /\ \A f \in DOMAIN files : ~StartsWith(f, <<"temp_">>) => Exists(after, f)

\* the last k entries of a text, the whole text when it is shorter
LastPortion(s, k) == IF Len(s) <= k THEN s ELSE SubSeq(s, Len(s) - k + 1, Len(s))

\* the step in which the running fetch stage of task t exits non-zero
FetchFails(t) == ytProc[t] = "running" /\ ytProc'[t] = "closed" /\ ytCode'[t] # 0

\* C26: when a stage subprocess exits with a non-zero status, the message of
\* the task's error event carries the exit code, and for the fetch stage an
\* excerpt of the captured error text that is the last portion of that text
\* and is never longer than the fixed bound; the cut stage, which captures no
\* text, carries the exit code.
C26_ErrorCarriesCodeAndLastPortion ==
  [][\A t \in Tasks :
       LET message == published'[t][Len(published'[t])].message
       IN /\ FetchFails(t) =>
               /\ published'[t][Len(published'[t])].status = "error"
               /\ message.n = ytCode'[t]
               /\ Len(message.excerpt) <= ExcerptLen
               /\ message.excerpt = LastPortion(errorOutput[t], ExcerptLen)
          /\ CutFails(t) =>
               /\ published'[t][Len(published'[t])].status = "error"
               /\ message.n = ffCode'[t]]_vars

\* the requests of a log from the i-th on follow the rule of the windows: a
\* window starts at the first admitted request (start < 0: none yet) and
\* lasts RateLimitWindowMs, it admits RateLimitMax requests and rejects the
\* rest, and the first request after it starts the next window
RECURSIVE RateLogOk(_, _, _, _)
RateLogOk(log, i, start, n) ==
  IF i > Len(log) THEN TRUE
  ELSE IF start < 0 \/ log[i].time > start + RateLimitWindowMs
    THEN log[i].admitted /\ RateLogOk(log, i + 1, log[i].time, 1)
  ELSE IF n < RateLimitMax
    THEN log[i].admitted /\ RateLogOk(log, i + 1, start, n + 1)
  ELSE ~log[i].admitted /\ RateLogOk(log, i + 1, start, n)

\* the requests of a log that were admitted at or after an instant
AdmittedSince(log, start) ==
  Cardinality({i \in DOMAIN log : log[i].admitted /\ log[i].time >= start})

\* C27: for every client address and every window, which starts at the
\* address's first admitted request and lasts windowMs, the rate limiter
\* admits at most config.rateLimit.max requests and rejects the rest (429);
\* the stored count of an address never exceeds max and is the number of
\* requests admitted in the stored window, and a request arriving after the
\* window has elapsed starts a new window with count 1.
C27_RateLimiterAdmitsAtMostMax ==
  \A ip \in Ips :
    /\ RateLogOk(rateLog[ip], 1, -1, 0)
    /\ ip \in DOMAIN rateLimitStore =>
         /\ rateLimitStore[ip].count \in 1..RateLimitMax
         /\ rateLimitStore[ip].count = AdmittedSince(rateLog[ip], rateLimitStore[ip].startTime)

\* an address was admitted twice, rejected, and admitted again in a new
\* window with count 1, while the other address has its own window
C27_RejectedThenNewWindow ==
  \E ip, other \in Ips :
    /\ ip # other
    /\ Len(rateLog[ip]) = 4
    /\ [i \in 1..4 |-> rateLog[ip][i].admitted] = <<TRUE, TRUE, FALSE, TRUE>>
    /\ ip \in DOMAIN rateLimitStore
    /\ rateLimitStore[ip] = [count |-> 1, startTime |-> rateLog[ip][4].time]
    /\ other \in DOMAIN rateLimitStore /\ rateLimitStore[other].count = 2

\* C28: after any sequence of publishes the snapshot stored for a task id is
\* the last event published for that id (none when nothing was published),
\* and a step that publishes an event of one task changes neither the
\* snapshot of another task, nor the registry of streams, nor what the
\* connection of another task has received.
C28_SnapshotIsLastPublished ==
  [][\A t \in Tasks :
       /\ IF published'[t] = <<>> THEN t \notin DOMAIN taskProgress'
          ELSE /\ t \in DOMAIN taskProgress'
               /\ taskProgress'[t] = published'[t][Len(published'[t])]
       /\ Publishes(t) =>
            /\ progressStreams' = progressStreams
            /\ \A u \in DOMAIN taskProgress \ {t} : taskProgress'[u] = taskProgress[u]
            /\ \A c \in Conns :
                 (connState[c] = "open" /\ connTask[c] # t) => received'[c] = received[c]]_vars

\* one task has published 'error' while the other, with an open connection
\* of its own, is still at its first event
C28_ErrorBesideFirstEvent ==
  \E t, u \in DOMAIN taskProgress : \E c \in Conns :
    /\ t # u
    /\ taskProgress[t].status = "error"
    /\ taskProgress[u] = Event("downloading", 5, Msg("Memulai pengunduhan video...", 0))
    /\ connState[c] = "open" /\ connTask[c] = u
    /\ u \in DOMAIN progressStreams /\ progressStreams[u] = c

\* C29: in the browser client, a state with no progress stream open and no
\* /trim request in flight leads to a state where the submit button is
\* enabled: after a 'complete' event, an 'error' event, a failed /trim
\* request or a connection error of the stream, the stream is closed and the
\* button is eventually enabled again
C29_IdleClientReenablesSubmit ==
  (~eventSource /\ trimPending = 0) ~> ~submitDisabled

====
